---- MODULE Spec2Model ----
(***************************************************************************)
(* Model of app/app.go: the Elasticsearch lifecycle controller             *)
(* (App.StartElasticsearch and the two listeners it registers), the lazily *)
(* persisted diagnostic identifier (App.EnsureDiagnosticId) and the job    *)
(* bootstrapper (Server.initJobs).                                         *)
(***************************************************************************)
EXTENDS Integers, Sequences, FiniteSets, Bags, TLC

\* Bounds of the model.
MaxTasks == 2          \* background tasks that have not finished, at any time
MaxStartCalls == 2     \* calls of App.StartElasticsearch
NumCallers == 2        \* concurrent callers of App.EnsureDiagnosticId
MaxCalls == 2          \* calls of App.EnsureDiagnosticId per caller

VARIABLES
    Elasticsearch,     \* a.Elasticsearch: the capability slot, "nil" or "impl"
    config,            \* the ElasticsearchSettings of the current configuration
    license,           \* a.License(): "nil" or "lic"
    configListeners,   \* callbacks registered with AddConfigListener, in order
    licenseListeners,  \* callbacks registered with AddLicenseListener, in order
    tasks,             \* bag of the goroutines started and not yet finished
    running,           \* the capability: TRUE after a successful Start
    lastCall,          \* the Start/Stop call that returned most recently
    lastChange,        \* the last configuration change the bus delivered
    panicked,          \* a nil capability was dereferenced: the process is gone
    diagnosticId,      \* a.Srv.diagnosticId; 0 is the empty string
    store,             \* the System row SYSTEM_DIAGNOSTIC_ID; 0 is absent/empty
    pc,                \* position of each EnsureDiagnosticId caller
    id,                \* the local variable id of each caller
    calls,             \* EnsureDiagnosticId calls made by each caller
    reads,             \* Store.System().Get() requests served
    writes,            \* Store.System().Save() requests served
    nextId,            \* identifiers model.NewId() has produced
    storeErrs,         \* Get and Save requests the store answered with an error
    factories,         \* the job interface factories that are registered
    jobs               \* the Server inside initJobs: position and s.Jobs

esVars == <<Elasticsearch, config, license, configListeners, licenseListeners,
            tasks, running, lastCall, lastChange, panicked>>
diagVars == <<diagnosticId, store, pc, id, calls, reads, writes, nextId,
              storeErrs>>
jobVars == <<factories, jobs>>
vars == <<Elasticsearch, config, license, configListeners, licenseListeners,
          tasks, running, lastCall, lastChange, panicked,
          diagnosticId, store, pc, id, calls, reads, writes, nextId,
          storeErrs, factories, jobs>>

----------------------------------------------------------------------------
\* Configuration snapshots: model.Config.ElasticsearchSettings.

BaseSettings ==
    [EnableIndexing |-> FALSE, Password |-> "pw1", Username |-> "user1",
     ConnectionUrl |-> "url1", Sniff |-> FALSE]

\* The connection parameters the inputs are drawn from: the base ones and the
\* base ones with exactly one of the four parameters different.
ConnSettings ==
    { BaseSettings,
      [BaseSettings EXCEPT !.Password = "pw2"],
      [BaseSettings EXCEPT !.Username = "user2"],
      [BaseSettings EXCEPT !.ConnectionUrl = "url2"],
      [BaseSettings EXCEPT !.Sniff = TRUE] }

Configs == { [c EXCEPT !.EnableIndexing = e] : c \in ConnSettings, e \in BOOLEAN }

Licenses == {"nil", "lic"}

----------------------------------------------------------------------------
\* Background tasks.

ConfigSites == {"L143", "L149", "L155"}
LicenseSites == {"L170", "L176"}

\* Srv.Go(f): f runs on a goroutine of its own.  site is the line of the
\* func literal, old the EnableIndexing of the oldConfig the literal captures.
Go(site, old) ==
    [site |-> site, oldEnableIndexing |-> old, thread |-> "goroutine",
     called |-> <<>>, inCall |-> FALSE]

\* f(): f runs on the thread that evaluates the call.
Inline(site, old) == [Go(site, old) EXCEPT !.thread = "caller"]

\* Body with the two calls of the restart task in the other order.
BodyStartFirst(t) ==
    CASE t.site \in {"L135", "L143", "L170"} -> <<"Start">>
      [] t.site \in {"L149", "L176"} -> <<"Stop">>
      [] t.site = "L155" ->
            IF t.oldEnableIndexing THEN <<"Start", "Stop">> ELSE <<>>

\* Body without the test of oldConfig.EnableIndexing in the restart task.
BodyNoGuard(t) ==
    CASE t.site \in {"L135", "L143", "L170"} -> <<"Start">>
      [] t.site \in {"L149", "L176"} -> <<"Stop">>
      [] t.site = "L155" -> <<"Stop", "Start">>

\* The calls a func literal makes to a.Elasticsearch, in order.
Body(t) ==
    CASE t.site \in {"L135", "L143", "L170"} -> <<"Start">>
      [] t.site \in {"L149", "L176"} -> <<"Stop">>
      [] t.site = "L155" ->
            IF t.oldEnableIndexing THEN <<"Stop", "Start">> ELSE <<>>

One(t) == SetToBag({t})

CallerIdle == \A t \in BagToSet(tasks) : t.thread # "caller"

----------------------------------------------------------------------------
\* The listeners.

ConnectionChanged(old, new) ==
    \/ old.Password # new.Password
    \/ old.Username # new.Username
    \/ old.ConnectionUrl # new.ConnectionUrl
    \/ old.Sniff # new.Sniff

\* ConfigListener testing the connection parameters before EnableIndexing.
ConfigListenerConnFirst(old, new) ==
    IF ConnectionChanged(old, new)
    THEN One(Go("L155", old.EnableIndexing))
    ELSE IF ~old.EnableIndexing /\ new.EnableIndexing
    THEN One(Go("L143", FALSE))
    ELSE IF old.EnableIndexing /\ ~new.EnableIndexing
    THEN One(Go("L149", FALSE))
    ELSE EmptyBag

\* ConfigListener calling Start on its own thread when indexing is enabled.
ConfigListenerInline(old, new) ==
    IF ~old.EnableIndexing /\ new.EnableIndexing
    THEN One(Inline("L143", FALSE))
    ELSE IF old.EnableIndexing /\ ~new.EnableIndexing
    THEN One(Go("L149", FALSE))
    ELSE IF ConnectionChanged(old, new)
    THEN One(Go("L155", old.EnableIndexing))
    ELSE EmptyBag

\* ConfigListener enabling indexing only while a license is present.
ConfigListenerLicensed(old, new) ==
    IF ~old.EnableIndexing /\ new.EnableIndexing
    THEN (IF license # "nil" THEN One(Go("L143", FALSE)) ELSE EmptyBag)
    ELSE IF old.EnableIndexing /\ ~new.EnableIndexing
    THEN One(Go("L149", FALSE))
    ELSE IF ConnectionChanged(old, new)
    THEN One(Go("L155", old.EnableIndexing))
    ELSE EmptyBag

\* The func literal passed to AddConfigListener: the tasks it dispatches.
ConfigListener(old, new) ==
    IF ~old.EnableIndexing /\ new.EnableIndexing
    THEN One(Go("L143", FALSE))
    ELSE IF old.EnableIndexing /\ ~new.EnableIndexing
    THEN One(Go("L149", FALSE))
    ELSE IF ConnectionChanged(old, new)
    THEN One(Go("L155", old.EnableIndexing))
    ELSE EmptyBag

\* LicenseListener starting the capability only when indexing is enabled.
LicenseListenerIfEnabled(lic) ==
    IF lic # "nil"
    THEN (IF config.EnableIndexing THEN One(Go("L170", FALSE)) ELSE EmptyBag)
    ELSE One(Go("L176", FALSE))

\* The func literal passed to AddLicenseListener: the tasks it dispatches.
LicenseListener(lic) ==
    IF lic # "nil" THEN One(Go("L170", FALSE)) ELSE One(Go("L176", FALSE))

\* The event bus: every registered callback, in registration order.
RECURSIVE InvokeConfigListeners(_, _, _)
InvokeConfigListeners(ls, old, new) ==
    IF ls = <<>> THEN EmptyBag
    ELSE ConfigListener(old, new) (+) InvokeConfigListeners(Tail(ls), old, new)

RECURSIVE InvokeLicenseListeners(_, _)
InvokeLicenseListeners(ls, lic) ==
    IF ls = <<>> THEN EmptyBag
    ELSE LicenseListener(lic) (+) InvokeLicenseListeners(Tail(ls), lic)

\* History: no configuration change has been delivered to a listener yet.
NoChange == [oldEnableIndexing |-> FALSE, newEnableIndexing |-> FALSE,
             connectionChanged |-> FALSE, listeners |-> 0,
             dispatched |-> EmptyBag]

\* History: the change from old to new was delivered to n listeners, which
\* dispatched the tasks d; the tasks are recorded by the calls they make.
Delivered(old, new, n, d) ==
    [oldEnableIndexing |-> old.EnableIndexing,
     newEnableIndexing |-> new.EnableIndexing,
     connectionChanged |-> [old EXCEPT !.EnableIndexing = FALSE]
                               # [new EXCEPT !.EnableIndexing = FALSE],
     listeners |-> n,
     dispatched |-> BagOfAll(Body, d)]

\* History: no Start or Stop call has returned yet.
NoCall == [op |-> "none", byConfig |-> FALSE, err |-> FALSE, logged |-> FALSE]

----------------------------------------------------------------------------
\* Actions of the Elasticsearch controller.

\* StartElasticsearch dispatching its Start only when indexing is enabled.
StartElasticsearchIfEnabled ==
    /\ ~panicked
    /\ CallerIdle
    /\ Len(configListeners) < MaxStartCalls
    /\ BagCardinality(tasks) < MaxTasks
    /\ tasks' = IF config.EnableIndexing
                THEN tasks (+) One(Go("L135", FALSE))
                ELSE tasks
    /\ configListeners' = Append(configListeners, "L141")
    /\ licenseListeners' = Append(licenseListeners, "L168")
    /\ UNCHANGED <<Elasticsearch, config, license, running, lastCall, lastChange,
                   panicked>>
    /\ UNCHANGED diagVars
    /\ UNCHANGED jobVars

\* App.StartElasticsearch: one Start task and one listener of each kind.
StartElasticsearch ==
    /\ ~panicked
    /\ CallerIdle
    /\ Len(configListeners) < MaxStartCalls
    /\ BagCardinality(tasks) < MaxTasks
    /\ tasks' = tasks (+) One(Go("L135", FALSE))
    /\ configListeners' = Append(configListeners, "L141")
    /\ licenseListeners' = Append(licenseListeners, "L168")
    /\ UNCHANGED <<Elasticsearch, config, license, running, lastCall, lastChange,
                   panicked>>
    /\ UNCHANGED diagVars
    /\ UNCHANGED jobVars

\* The configuration is replaced by new and the bus calls the listeners.
ConfigChange(new) ==
    /\ ~panicked
    /\ CallerIdle
    /\ BagCardinality(tasks) + Len(configListeners) <= MaxTasks
    /\ tasks' = tasks (+) InvokeConfigListeners(configListeners, config, new)
    /\ config' = new
    /\ lastChange' = IF configListeners = <<>> THEN lastChange
                     ELSE Delivered(config, new, Len(configListeners),
                             InvokeConfigListeners(configListeners, config, new))
    /\ UNCHANGED <<Elasticsearch, license, configListeners, licenseListeners,
                   running, lastCall, panicked>>
    /\ UNCHANGED diagVars
    /\ UNCHANGED jobVars

\* The license is replaced by lic and the bus calls the listeners.
LicenseChange(lic) ==
    /\ ~panicked
    /\ CallerIdle
    /\ BagCardinality(tasks) + Len(licenseListeners) <= MaxTasks
    /\ license' = lic
    /\ tasks' = tasks (+) InvokeLicenseListeners(licenseListeners, lic)
    /\ UNCHANGED <<Elasticsearch, config, configListeners, licenseListeners,
                   running, lastCall, lastChange, panicked>>
    /\ UNCHANGED diagVars
    /\ UNCHANGED jobVars

\* A task reaches its next a.Elasticsearch.Start() or .Stop().
Invoke(t) ==
    /\ ~panicked
    /\ BagIn(t, tasks)
    /\ ~t.inCall
    /\ Len(t.called) < Len(Body(t))
    /\ IF Elasticsearch = "nil"
       THEN /\ panicked' = TRUE
            /\ UNCHANGED tasks
       ELSE /\ tasks' = (tasks (-) One(t)) (+)
                        One([t EXCEPT !.called = Append(@, Body(t)[Len(@) + 1]),
                                      !.inCall = TRUE])
            /\ UNCHANGED panicked
    /\ UNCHANGED <<Elasticsearch, config, license, configListeners,
                   licenseListeners, running, lastCall, lastChange>>
    /\ UNCHANGED diagVars
    /\ UNCHANGED jobVars

\* The capability behind the slot: a Start or Stop that succeeds leaves it
\* running or stopped, one that fails leaves it as it was.
CapabilityAfter(op, err, was) == IF err THEN was ELSE (op = "Start")

\* AfterReturn making a failed call again.
AfterReturnRetry(t, err) ==
    IF err
    THEN One([t EXCEPT !.inCall = FALSE,
                       !.called = SubSeq(@, 1, Len(@) - 1)])
    ELSE IF Len(t.called) = Len(Body(t)) THEN EmptyBag
    ELSE One([t EXCEPT !.inCall = FALSE])

\* AfterReturn ending the task when the call has failed.
AfterReturnAbortOnError(t, err) ==
    IF err \/ Len(t.called) = Len(Body(t)) THEN EmptyBag
    ELSE One([t EXCEPT !.inCall = FALSE])

\* What is left of a task once its call in progress has returned.
AfterReturn(t, err) ==
    IF Len(t.called) = Len(Body(t)) THEN EmptyBag
    ELSE One([t EXCEPT !.inCall = FALSE])

\* The call in progress of a task returns, with an error or without, and the
\* task logs the error.
Return(t, err) ==
    /\ ~panicked
    /\ BagIn(t, tasks)
    /\ t.inCall
    /\ LET op == t.called[Len(t.called)]
       IN  /\ running' = CapabilityAfter(op, err, running)
           /\ lastCall' = [op |-> op, byConfig |-> t.site \in ConfigSites,
                           err |-> err, logged |-> err]
    /\ tasks' = (tasks (-) One(t)) (+) AfterReturn(t, err)
    /\ UNCHANGED <<Elasticsearch, config, license, configListeners,
                   licenseListeners, lastChange, panicked>>
    /\ UNCHANGED diagVars
    /\ UNCHANGED jobVars

\* A task whose func literal calls nothing finishes.
Finish(t) ==
    /\ ~panicked
    /\ BagIn(t, tasks)
    /\ Body(t) = <<>>
    /\ tasks' = tasks (-) One(t)
    /\ UNCHANGED <<Elasticsearch, config, license, configListeners,
                   licenseListeners, running, lastCall, lastChange, panicked>>
    /\ UNCHANGED diagVars
    /\ UNCHANGED jobVars

\* The producer slots of the JobServer. The factory of a slot, the package
\* variable jobs<Slot>Interface, goes by the name of its slot, and so does
\* the producer it returns.
JobSlots == {"DataRetentionJob", "MessageExportJob", "ElasticsearchAggregator",
             "ElasticsearchIndexer", "LdapSync", "Migrations"}

\* The Server at statement n of initJobs (0: initJobs is not running), with
\* no producer attached, no factory invoked and no collection materialized.
\* Workers and Schedulers hold, per materialization, the s.Jobs it was
\* called on.
JobsAt(n) ==
    [pc |-> n,
     Jobs |-> [f \in JobSlots |-> "nil"],
     invoked |-> [f \in JobSlots |-> 0],
     Workers |-> <<>>,
     Schedulers |-> <<>>]

\* No job interface factory is registered and initJobs has not been called.
InitJobsIdle ==
    /\ factories = {}
    /\ jobs = JobsAt(0)

InitES ==
    /\ Elasticsearch \in {"nil", "impl"}
    /\ config \in {BaseSettings, [BaseSettings EXCEPT !.EnableIndexing = TRUE]}
    /\ license \in Licenses
    /\ configListeners = <<>>
    /\ licenseListeners = <<>>
    /\ tasks = EmptyBag
    /\ running = FALSE
    /\ lastCall = NoCall
    /\ lastChange = NoChange
    /\ panicked = FALSE

\* The diagnostic identifier is unset and no caller is inside
\* EnsureDiagnosticId.
InitDiagIdle ==
    /\ diagnosticId = 0
    /\ store = 0
    /\ pc = [c \in 1..NumCallers |-> "idle"]
    /\ id = [c \in 1..NumCallers |-> 0]
    /\ calls = [c \in 1..NumCallers |-> 0]
    /\ reads = 0
    /\ writes = 0
    /\ nextId = 0
    /\ storeErrs = 0

Init == InitES /\ InitDiagIdle /\ InitJobsIdle

Next ==
    \/ StartElasticsearch
    \/ \E new \in Configs : ConfigChange(new)
    \/ \E lic \in Licenses : LicenseChange(lic)
    \/ \E t \in BagToSet(tasks) : Invoke(t)
    \/ \E t \in BagToSet(tasks) : \E err \in BOOLEAN : Return(t, err)
    \/ \E t \in BagToSet(tasks) : Finish(t)

Spec == Init /\ [][Next]_vars

----------------------------------------------------------------------------
\* The lazily persisted diagnostic identifier.

Callers == 1..NumCallers

\* EnsureEntry without the test of the in-memory identifier.
EnsureEntryNoCheck(diag) == "L104"

\* Where a call of EnsureDiagnosticId goes after its first test: it returns
\* at once when the in-memory identifier is set, and reads the store otherwise.
EnsureEntry(diag) == IF diag # 0 THEN "L102" ELSE "L104"

\* A caller enters EnsureDiagnosticId and tests a.Srv.diagnosticId.
Call(c) ==
    /\ pc[c] \in {"idle", "L102", "L116"}
    /\ calls[c] < MaxCalls
    /\ calls' = [calls EXCEPT ![c] = @ + 1]
    /\ pc' = [pc EXCEPT ![c] = EnsureEntry(diagnosticId)]
    /\ id' = [id EXCEPT ![c] = 0]
    /\ UNCHANGED <<diagnosticId, store, reads, writes, nextId, storeErrs>>
    /\ UNCHANGED esVars
    /\ UNCHANGED jobVars

\* AfterGet that takes a failed read for an empty store.
AfterGetIgnoringErr(err, stored) == IF stored # 0 THEN "L114" ELSE "L111"

\* AfterGet that generates an identifier whatever the store holds.
AfterGetAlwaysNew(err, stored) == IF err THEN "L116" ELSE "L111"

\* Where the caller goes when Get has answered: to the end on an error, to
\* the assignment with a stored identifier, to the Save with a new one.
AfterGet(err, stored) ==
    IF err THEN "L116" ELSE IF stored # 0 THEN "L114" ELSE "L111"

\* Store.System().Get() answers; on success the caller takes the stored
\* identifier or, when there is none, a new one from model.NewId().
Get(c, err) ==
    /\ pc[c] = "L104"
    /\ reads' = reads + 1
    /\ storeErrs' = storeErrs + (IF err THEN 1 ELSE 0)
    /\ pc' = [pc EXCEPT ![c] = AfterGet(err, store)]
    /\ IF pc'[c] = "L116"
       THEN UNCHANGED <<id, nextId>>
       ELSE IF pc'[c] = "L114"
       THEN /\ id' = [id EXCEPT ![c] = store]
            /\ UNCHANGED nextId
       ELSE /\ id' = [id EXCEPT ![c] = nextId + 1]
            /\ nextId' = nextId + 1
    /\ UNCHANGED <<diagnosticId, store, calls, writes>>
    /\ UNCHANGED esVars
    /\ UNCHANGED jobVars

\* Save that never reaches the store.
SaveDropped(c, ok) ==
    /\ pc[c] = "L111"
    /\ writes' = writes + 1
    /\ storeErrs' = storeErrs + (IF ok THEN 0 ELSE 1)
    /\ pc' = [pc EXCEPT ![c] = "L114"]
    /\ UNCHANGED <<diagnosticId, store, id, calls, reads, nextId>>
    /\ UNCHANGED esVars
    /\ UNCHANGED jobVars

\* Store.System().Save() answers; the caller drops its result.
Save(c, ok) ==
    /\ pc[c] = "L111"
    /\ writes' = writes + 1
    /\ store' = IF ok THEN id[c] ELSE store
    /\ storeErrs' = storeErrs + (IF ok THEN 0 ELSE 1)
    /\ pc' = [pc EXCEPT ![c] = "L114"]
    /\ UNCHANGED <<diagnosticId, id, calls, reads, nextId>>
    /\ UNCHANGED esVars
    /\ UNCHANGED jobVars

\* The caller caches the identifier and returns.
Cache(c) ==
    /\ pc[c] = "L114"
    /\ diagnosticId' = id[c]
    /\ pc' = [pc EXCEPT ![c] = "L116"]
    /\ UNCHANGED <<store, id, calls, reads, writes, nextId, storeErrs>>
    /\ UNCHANGED esVars
    /\ UNCHANGED jobVars

\* The store holds no identifier, or one written by an earlier process.
InitDiag ==
    /\ diagnosticId = 0
    /\ store \in {0, 1}
    /\ nextId = store
    /\ pc = [c \in Callers |-> "idle"]
    /\ id = [c \in Callers |-> 0]
    /\ calls = [c \in Callers |-> 0]
    /\ reads = 0
    /\ writes = 0
    /\ storeErrs = 0
    /\ InitJobsIdle
    /\ Elasticsearch = "impl"
    /\ config = BaseSettings
    /\ license = "nil"
    /\ configListeners = <<>>
    /\ licenseListeners = <<>>
    /\ tasks = EmptyBag
    /\ running = FALSE
    /\ lastCall = NoCall
    /\ lastChange = NoChange
    /\ panicked = FALSE

NextDiag ==
    \/ \E c \in Callers : Call(c)
    \/ \E c \in Callers : \E err \in BOOLEAN : Get(c, err)
    \/ \E c \in Callers : \E ok \in BOOLEAN : Save(c, ok)
    \/ \E c \in Callers : Cache(c)

SpecDiag == InitDiag /\ [][NextDiag]_vars

\* A caller inside EnsureDiagnosticId goes on: the store answers every
\* request it receives (the caller blocks on the result channel until then)
\* and the caller's goroutine is scheduled. Whether a caller calls at all is
\* left open.
FairCaller(c) ==
    /\ WF_vars(\E err \in BOOLEAN : Get(c, err))
    /\ WF_vars(\E ok \in BOOLEAN : Save(c, ok))
    /\ WF_vars(Cache(c))

SpecDiagFair == SpecDiag /\ \A c \in Callers : FairCaller(c)

----------------------------------------------------------------------------
\* Server.initJobs.

\* The statement that attaches the result of a factory to a slot.
Attach(factory, slot) == [op |-> "Attach", factory |-> factory, slot |-> slot]

\* A statement that is no attachment.
Stmt(op) == [op |-> op, factory |-> "", slot |-> ""]

\* initJobs with the result of the LdapSync factory put into the Migrations
\* slot and the other way round.
initJobsCrossed ==
    << Stmt("NewJobServer"),
       Attach("DataRetentionJob", "DataRetentionJob"),
       Attach("MessageExportJob", "MessageExportJob"),
       Attach("ElasticsearchAggregator", "ElasticsearchAggregator"),
       Attach("ElasticsearchIndexer", "ElasticsearchIndexer"),
       Attach("LdapSync", "Migrations"),
       Attach("Migrations", "LdapSync"),
       Stmt("InitWorkers"),
       Stmt("InitSchedulers") >>

\* initJobs with the workers materialized before the last attachment.
initJobsWorkersEarly ==
    << Stmt("NewJobServer"),
       Attach("DataRetentionJob", "DataRetentionJob"),
       Attach("MessageExportJob", "MessageExportJob"),
       Attach("ElasticsearchAggregator", "ElasticsearchAggregator"),
       Attach("ElasticsearchIndexer", "ElasticsearchIndexer"),
       Attach("LdapSync", "LdapSync"),
       Stmt("InitWorkers"),
       Attach("Migrations", "Migrations"),
       Stmt("InitSchedulers") >>

\* The statements of initJobs in program order.
initJobs ==
    << Stmt("NewJobServer"),
       Attach("DataRetentionJob", "DataRetentionJob"),
       Attach("MessageExportJob", "MessageExportJob"),
       Attach("ElasticsearchAggregator", "ElasticsearchAggregator"),
       Attach("ElasticsearchIndexer", "ElasticsearchIndexer"),
       Attach("LdapSync", "LdapSync"),
       Attach("Migrations", "Migrations"),
       Stmt("InitWorkers"),
       Stmt("InitSchedulers") >>

\* initJobs stands at a statement of the given kind.
AtStmt(op) ==
    /\ jobs.pc \in 1..Len(initJobs)
    /\ initJobs[jobs.pc].op = op

\* initJobs has run all its statements.
Returned == jobs.pc = Len(initJobs) + 1

\* s.Jobs = jobs.NewJobServer(s, s.Store): a JobServer with empty slots.
NewJobServer ==
    /\ AtStmt("NewJobServer")
    /\ jobs' = [JobsAt(jobs.pc + 1) EXCEPT !.invoked = jobs.invoked]
    /\ UNCHANGED factories
    /\ UNCHANGED esVars
    /\ UNCHANGED diagVars

\* if jobs<X>Interface != nil { s.Jobs.<X> = jobs<X>Interface(s.FakeApp()) }
AttachProducer ==
    /\ AtStmt("Attach")
    /\ LET st == initJobs[jobs.pc] IN
           jobs' = IF st.factory \in factories
                   THEN [jobs EXCEPT !.pc = @ + 1,
                                     !.invoked[st.factory] = @ + 1,
                                     !.Jobs[st.slot] = st.factory]
                   ELSE [jobs EXCEPT !.pc = @ + 1]
    /\ UNCHANGED factories
    /\ UNCHANGED esVars
    /\ UNCHANGED diagVars

\* s.Jobs.Workers = s.Jobs.InitWorkers()
InitWorkers ==
    /\ AtStmt("InitWorkers")
    /\ jobs' = [jobs EXCEPT !.pc = @ + 1,
                            !.Workers = Append(@, jobs.Jobs)]
    /\ UNCHANGED factories
    /\ UNCHANGED esVars
    /\ UNCHANGED diagVars

\* s.Jobs.Schedulers = s.Jobs.InitSchedulers()
InitSchedulers ==
    /\ AtStmt("InitSchedulers")
    /\ jobs' = [jobs EXCEPT !.pc = @ + 1,
                            !.Schedulers = Append(@, jobs.Jobs)]
    /\ UNCHANGED factories
    /\ UNCHANGED esVars
    /\ UNCHANGED diagVars

\* initJobs is entered with any set of factories registered.
InitJobs ==
    /\ factories \in SUBSET JobSlots
    /\ jobs = JobsAt(1)
    /\ InitDiagIdle
    /\ Elasticsearch = "impl"
    /\ config = BaseSettings
    /\ license = "nil"
    /\ configListeners = <<>>
    /\ licenseListeners = <<>>
    /\ tasks = EmptyBag
    /\ running = FALSE
    /\ lastCall = NoCall
    /\ lastChange = NoChange
    /\ panicked = FALSE

NextJobs ==
    \/ NewJobServer
    \/ AttachProducer
    \/ InitWorkers
    \/ InitSchedulers

SpecJobs == InitJobs /\ [][NextJobs]_vars

----------------------------------------------------------------------------
\* Properties of the Elasticsearch controller.

\* The bag holding n copies of b.
Times(n, b) == IF n = 0 THEN EmptyBag ELSE [x \in {b} |-> n]

\* The two snapshots hold the same four connection parameters.
SameConnection(old, new) ==
    [old EXCEPT !.EnableIndexing = FALSE] = [new EXCEPT !.EnableIndexing = FALSE]

\* The tasks that are inside a Start or Stop call.
InCall == {t \in BagToSet(tasks) : t.inCall}
InCallCount ==
    IF InCall = {} THEN 0
    ELSE BagCardinality([t \in InCall |-> CopiesIn(t, tasks)])

\* C1: a configuration change that flips EnableIndexing makes every listener
\* dispatch exactly one task, which calls Start alone when indexing went from
\* disabled to enabled and Stop alone when it went from enabled to disabled,
\* whether or not the connection parameters changed as well.
C1_FlipDispatchesOne ==
    lastChange.listeners > 0 =>
        /\ (~lastChange.oldEnableIndexing /\ lastChange.newEnableIndexing) =>
               lastChange.dispatched = Times(lastChange.listeners, <<"Start">>)
        /\ (lastChange.oldEnableIndexing /\ ~lastChange.newEnableIndexing) =>
               lastChange.dispatched = Times(lastChange.listeners, <<"Stop">>)

\* Indexing went from disabled to enabled in a change that also changed a
\* connection parameter, and the Start task it dispatched is waiting.
C1_Witness ==
    /\ lastChange.listeners = 1
    /\ ~lastChange.oldEnableIndexing /\ lastChange.newEnableIndexing
    /\ lastChange.connectionChanged
    /\ lastChange.dispatched = Times(1, <<"Start">>)
    /\ BagIn(Go("L143", FALSE), tasks)

\* C2: a configuration change with indexing enabled before and after and a
\* different connection parameter makes every listener dispatch exactly one
\* task; that task calls Stop, and calls Start only after Stop has returned,
\* each once.
C2_RestartStopThenStart ==
    /\ (/\ lastChange.listeners > 0
        /\ lastChange.oldEnableIndexing /\ lastChange.newEnableIndexing
        /\ lastChange.connectionChanged) =>
           lastChange.dispatched = Times(lastChange.listeners, <<"Stop", "Start">>)
    /\ \A t \in BagToSet(tasks) :
           (t.site = "L155" /\ t.oldEnableIndexing) =>
               /\ t.called \in {<<>>, <<"Stop">>, <<"Stop", "Start">>}
               /\ (t.called = <<"Stop", "Start">> => t.inCall)

\* The Stop of a restart task has returned and its Start is in progress.
C2_Witness ==
    /\ lastChange.oldEnableIndexing /\ lastChange.newEnableIndexing
    /\ lastChange.connectionChanged
    /\ lastCall.byConfig /\ lastCall.op = "Stop"
    /\ \E t \in BagToSet(tasks) :
           /\ t.site = "L155"
           /\ t.called = <<"Stop", "Start">> /\ t.inCall

\* C3: a configuration change with indexing enabled before and after and the
\* same connection parameters dispatches nothing; one with indexing disabled
\* before and after dispatches at most a task that calls neither Start nor
\* Stop (one per listener when a connection parameter changed).
C3_NoCallWithoutCause ==
    /\ lastChange.listeners > 0 =>
           /\ (/\ lastChange.oldEnableIndexing /\ lastChange.newEnableIndexing
               /\ ~lastChange.connectionChanged) =>
                  lastChange.dispatched = EmptyBag
           /\ (~lastChange.oldEnableIndexing /\ ~lastChange.newEnableIndexing) =>
                  lastChange.dispatched =
                      IF lastChange.connectionChanged
                      THEN Times(lastChange.listeners, <<>>)
                      ELSE EmptyBag
    /\ \A t \in BagToSet(tasks) :
           (t.site = "L155" /\ ~t.oldEnableIndexing) =>
               t.called = <<>> /\ ~t.inCall

\* Indexing stayed disabled while a connection parameter changed: the task
\* dispatched for it is waiting and the capability, started earlier, runs.
C3_Witness ==
    /\ lastChange.listeners = 1
    /\ ~lastChange.oldEnableIndexing /\ ~lastChange.newEnableIndexing
    /\ lastChange.connectionChanged
    /\ running
    /\ tasks = One(Go("L155", FALSE))

\* C4: a license-change notification makes every license listener dispatch
\* exactly one task, which calls Start when the license is present and Stop
\* when it is absent, whatever the configuration is.
C4_LicenseDispatch ==
    [][LET n == Len(licenseListeners)
           New(site) == CopiesIn(Go(site, FALSE), tasks')
                            - CopiesIn(Go(site, FALSE), tasks)
       IN  (license' # license \/ New("L170") > 0 \/ New("L176") > 0) =>
               /\ New("L170") = (IF license' # "nil" THEN n ELSE 0)
               /\ New("L176") = (IF license' # "nil" THEN 0 ELSE n)
               /\ Body(Go("L170", FALSE)) = <<"Start">>
               /\ Body(Go("L176", FALSE)) = <<"Stop">>
               /\ BagCardinality(tasks') = BagCardinality(tasks) + n]_vars

\* With indexing disabled since construction and the license present, the
\* Start task of the license listener is waiting.
C4_Witness ==
    /\ lastChange = NoChange
    /\ ~config.EnableIndexing
    /\ license = "lic"
    /\ Len(licenseListeners) = 1
    /\ BagIn(Go("L170", FALSE), tasks)

\* C5: at most one Start or Stop call is in progress at any time.
C5_AtMostOneCall == InCallCount <= 1

\* C6: once every task has finished, the last call a configuration change
\* caused is the one of the most recent change that caused a call, a Start
\* when indexing is enabled now and a Stop when it is disabled, and the
\* capability runs exactly when indexing is enabled.
C6_LastCallIsLatest ==
    (tasks = EmptyBag /\ lastCall.byConfig) =>
        /\ lastCall.op = (IF config.EnableIndexing THEN "Start" ELSE "Stop")
        /\ (~lastCall.err => running = config.EnableIndexing)

\* C7: every Start and Stop call runs on a goroutine started by Srv.Go, and
\* the thread that delivers a change is free to deliver the next one while
\* calls are in progress.
C7_CallsOnGoroutines ==
    /\ \A t \in BagToSet(tasks) : t.thread = "goroutine"
    /\ (~panicked /\ BagCardinality(tasks) + Len(licenseListeners) <= MaxTasks)
           => ENABLED LicenseChange("lic")

\* The Start dispatched when indexing was enabled is still in progress after
\* the change that disabled indexing has been delivered and has dispatched
\* its Stop.
C7_Witness ==
    \E t \in BagToSet(tasks) :
        /\ t.site = "L143" /\ t.inCall
        /\ lastChange.oldEnableIndexing /\ ~lastChange.newEnableIndexing
        /\ BagIn(Go("L149", FALSE), tasks)

\* C8: when a Start or Stop call returns an error, the error is logged and
\* the task goes on exactly as after a successful call: the call is not made
\* again, no task is dispatched, and the configuration, the license and the
\* listeners stay as they are.
C8_ErrorLoggedOnly ==
    [][\A t \in BagToSet(tasks) :
          (/\ t.inCall
           /\ CopiesIn(t, tasks') < CopiesIn(t, tasks)
           /\ lastCall'.err) =>
              /\ lastCall'.logged
              /\ lastCall'.op = t.called[Len(t.called)]
              /\ tasks' = (tasks (-) One(t)) (+) AfterReturn(t, FALSE)
              /\ \A u \in BagToSet(tasks') : u.thread = "goroutine"
              /\ UNCHANGED <<config, license, configListeners, licenseListeners,
                             panicked>>]_vars

\* The Start dispatched by a configuration change failed, was logged, and
\* nothing is left to run.
C8_Witness ==
    /\ lastCall.err /\ lastCall.logged
    /\ lastCall.op = "Start" /\ lastCall.byConfig
    /\ tasks = EmptyBag

\* The calls of the tasks one listener dispatches, per pair of snapshots.
Decision ==
    [old \in Configs, new \in Configs |->
        BagToSet(BagOfAll(Body, ConfigListener(old, new)))]

\* C9: what the config listener dispatched for the last change is what it
\* dispatches for every pair of snapshots that agrees with that change on
\* EnableIndexing before, EnableIndexing after and whether a connection
\* parameter differs, in whatever state the program is now.
C9_DecisionByDeltaOnly ==
    lastChange.listeners > 0 =>
        \A old \in {c \in Configs :
                       c.EnableIndexing = lastChange.oldEnableIndexing} :
            \A new \in {c \in Configs :
                           c.EnableIndexing = lastChange.newEnableIndexing} :
                (SameConnection(old, new) = ~lastChange.connectionChanged) =>
                    Decision[old, new] = BagToSet(lastChange.dispatched)

\* A change that enabled indexing was delivered while the license was
\* present and the capability stopped; now the license is absent, the
\* capability runs and the connection parameters are other ones.
C9_Witness ==
    /\ lastChange.listeners > 0
    /\ ~lastChange.oldEnableIndexing /\ lastChange.newEnableIndexing
    /\ lastChange.dispatched = Times(lastChange.listeners, <<"Start">>)
    /\ license = "nil"
    /\ running
    /\ lastCall.byConfig /\ lastCall.op = "Start"

\* C19: a step that registers a listener is a call of StartElasticsearch: it
\* registers exactly one configuration listener and one license listener
\* and dispatches exactly one task, at once and in the background, which
\* calls Start, whatever the configuration and the license are. After k
\* calls there are k listeners of each kind, and a single change that
\* dispatches anything dispatches k copies of one listener task.
C19_OneStartAndListenersPerCall ==
    [][/\ Len(configListeners') = Len(licenseListeners')
       /\ IF configListeners' # configListeners
          THEN /\ configListeners' = Append(configListeners, "L141")
               /\ licenseListeners' = Append(licenseListeners, "L168")
               /\ tasks' = tasks (+) One(Go("L135", FALSE))
               /\ Go("L135", FALSE).thread = "goroutine"
               /\ Body(Go("L135", FALSE)) = <<"Start">>
               /\ UNCHANGED <<config, license>>
          ELSE BagCardinality(tasks') > BagCardinality(tasks) =>
                   \E site \in ConfigSites \cup LicenseSites :
                       \E old \in BOOLEAN :
                           tasks' = tasks (+) Times(Len(configListeners),
                                                   Go(site, old))]_vars

\* StartElasticsearch was called twice while indexing was disabled and the
\* license absent; both Start tasks are over, and the one change that
\* enabled indexing has dispatched two Start tasks.
C19_Witness ==
    /\ Len(configListeners) = 2 /\ Len(licenseListeners) = 2
    /\ license = "nil"
    /\ lastChange.listeners = 2
    /\ ~lastChange.oldEnableIndexing /\ lastChange.newEnableIndexing
    /\ lastCall.op = "Start" /\ ~lastCall.byConfig
    /\ tasks = Times(2, Go("L143", FALSE))

\* C18: while the Elasticsearch slot is absent no task calls Start or Stop
\* through it: StartElasticsearch, a configuration change and a license
\* change lead to no nil dereference.
C18_NoCallThroughAbsentSlot == Elasticsearch = "nil" => ~panicked

\* The restart task t with the given calls made.
Restarting(t, called, inCall) ==
    [t EXCEPT !.called = called, !.inCall = inCall]

\* C20: when the Stop of a restart task returns, with an error or without,
\* the task goes on, a failed Stop having been logged; the next thing the
\* task does is to call Start; when that Start returns the task is over.
\* A restart task never calls anything but one Stop and then one Start.
C20_StartOnceAfterStop ==
    [][/\ \A t \in BagToSet(tasks') :
             t.site = "L155" =>
                 t.called \in {<<>>, <<"Stop">>, <<"Stop", "Start">>}
       /\ \A t \in BagToSet(tasks) :
             (t.site = "L155" /\ CopiesIn(t, tasks') < CopiesIn(t, tasks)) =>
                 /\ (t.called = <<"Stop">> /\ t.inCall) =>
                        /\ lastCall'.op = "Stop"
                        /\ lastCall'.err => lastCall'.logged
                        /\ tasks' = (tasks (-) One(t)) (+)
                                     One(Restarting(t, <<"Stop">>, FALSE))
                 /\ (t.called = <<"Stop">> /\ ~t.inCall) =>
                        tasks' = (tasks (-) One(t)) (+)
                                 One(Restarting(t, <<"Stop", "Start">>, TRUE))
                 /\ (t.called = <<"Stop", "Start">>) =>
                        /\ lastCall'.op = "Start"
                        /\ tasks' = tasks (-) One(t)]_vars

\* The Stop of a restart task has failed and was logged, and the task, the
\* only one there is, is inside its Start.
C20_Witness ==
    /\ lastCall = [op |-> "Stop", byConfig |-> TRUE, err |-> TRUE,
                   logged |-> TRUE]
    /\ lastChange.oldEnableIndexing /\ lastChange.newEnableIndexing
    /\ lastChange.connectionChanged
    /\ tasks = One(Restarting(Go("L155", TRUE), <<"Stop", "Start">>, TRUE))

----------------------------------------------------------------------------
\* Properties of the diagnostic identifier.

\* C10: a call of EnsureDiagnosticId that starts with the in-memory
\* identifier set returns at once: it makes no storage read and no storage
\* write and leaves the in-memory identifier and the store as they are.
C10_NoIoOnceCached ==
    [][\A c \in Callers :
          (calls'[c] = calls[c] + 1 /\ diagnosticId # 0) =>
              /\ pc'[c] = "L102"
              /\ UNCHANGED <<diagnosticId, store, reads, writes>>]_vars

\* A caller made a second call after the identifier was cached: it returned
\* early and the store has served the one read of the first fill.
C10_Witness ==
    \E c \in Callers :
        /\ pc[c] = "L102"
        /\ calls[c] = 2
        /\ diagnosticId # 0
        /\ reads = 1

\* Every caller has called EnsureDiagnosticId and is outside it.
AllReturned ==
    \A c \in Callers : calls[c] > 0 /\ pc[c] \in {"L102", "L116"}

\* The store held no identifier when the callers began: it holds none now,
\* or what it holds was written by a caller.
StartedEmpty == store = 0 \/ writes > 0

C12_SetOnceGeneratedOnce ==
    [][/\ diagnosticId # 0 => diagnosticId' = diagnosticId
       /\ StartedEmpty' => nextId' <= 1]_vars

\* C13: a single caller has run EnsureDiagnosticId and returned, whatever
\* the store answered to Save; if the in-memory identifier is set, the store
\* holds that identifier.
C13_PersistedBeforeCached ==
    \A c \in Callers :
        (/\ pc[c] = "L116"
         /\ \A d \in Callers \ {c} : calls[d] = 0
         /\ diagnosticId # 0)
            => store = diagnosticId

\* C14: the step in which the store answers a caller's Get with an error
\* ends that call and changes neither the in-memory identifier nor the
\* store, generates no identifier and issues no Save; a call that begins
\* while the in-memory identifier is still empty reads the store again.
C14_ReadFailureCachesNothing ==
    [][\A c \in Callers :
          /\ (pc[c] = "L104" /\ pc'[c] # "L104"
                 /\ storeErrs' = storeErrs + 1) =>
                 /\ pc'[c] = "L116"
                 /\ id'[c] = 0
                 /\ UNCHANGED <<diagnosticId, store, nextId, writes>>
          /\ (calls'[c] = calls[c] + 1 /\ diagnosticId = 0) =>
                 pc'[c] = "L104"]_vars

\* One caller's read of the empty store failed and the call returned with
\* nothing cached, generated or written; the caller has called again and is
\* at the store read once more.
C14_Witness ==
    \E c \in Callers :
        /\ calls[c] = 2 /\ pc[c] = "L104"
        /\ \A d \in Callers \ {c} : calls[d] = 0
        /\ reads = 1 /\ storeErrs = 1
        /\ diagnosticId = 0 /\ store = 0 /\ nextId = 0 /\ writes = 0

\* C16: while the store holds the identifier it began with, a caller whose
\* Get succeeds takes exactly that identifier, generates none and goes to
\* the assignment without a Save; the assignment caches it; the store is
\* never written.
C16_StoredIdIsCached ==
    [][(store # 0 /\ writes = 0) =>
          /\ UNCHANGED <<store, nextId, writes>>
          /\ diagnosticId' \in {diagnosticId, store}
          /\ \A c \in Callers :
                /\ (pc[c] = "L104" /\ pc'[c] # "L104"
                       /\ storeErrs' = storeErrs) =>
                       pc'[c] = "L114" /\ id'[c] = store
                /\ (pc[c] = "L114" /\ pc'[c] = "L116") =>
                       diagnosticId' = store]_vars

\* The store began with an identifier; a caller has read it, cached it and
\* returned; no identifier was generated and nothing was saved.
C16_Witness ==
    /\ store = 1 /\ diagnosticId = 1
    /\ nextId = 1 /\ writes = 0 /\ reads = 1 /\ storeErrs = 0
    /\ \E c \in Callers : pc[c] = "L116" /\ calls[c] = 1

----------------------------------------------------------------------------
\* Properties of initJobs.

\* C15: initJobs never invokes a factory twice and runs to its end for
\* every set of registered factories; when it has returned, every
\* registered factory has been invoked exactly once and its producer sits
\* in the slot of its name, and every slot without a registered factory is
\* empty, its factory never invoked. With no factory registered no slot is
\* filled; with all six registered every slot is.
C15_EachFactoryOnceInItsSlot ==
    /\ \A f \in JobSlots : jobs.invoked[f] <= 1
    /\ ~Returned => ENABLED NextJobs
    /\ Returned =>
          \A f \in JobSlots :
              IF f \in factories
              THEN jobs.invoked[f] = 1 /\ jobs.Jobs[f] = f
              ELSE jobs.invoked[f] = 0 /\ jobs.Jobs[f] = "nil"

\* initJobs has returned with all six factories registered.
C15_Witness ==
    /\ Returned
    /\ factories = JobSlots
    /\ \A f \in JobSlots : jobs.invoked[f] = 1 /\ jobs.Jobs[f] = f

\* C17: workers and schedulers are materialized at most once each, the
\* schedulers only when the workers are; each is materialized on a
\* JobServer in which every registered factory has been invoked and
\* attached, and that JobServer is the one of every later state, so no
\* producer is attached afterwards; when initJobs has returned both exist.
C17_CollectionsAfterAttachments ==
    /\ Len(jobs.Workers) <= 1 /\ Len(jobs.Schedulers) <= 1
    /\ jobs.Schedulers # <<>> => jobs.Workers # <<>>
    /\ \A col \in {jobs.Workers, jobs.Schedulers} :
          col # <<>> =>
              /\ col[1] = jobs.Jobs
              /\ \A f \in factories :
                    jobs.invoked[f] = 1 /\ col[1][f] = f
    /\ Returned => jobs.Workers # <<>> /\ jobs.Schedulers # <<>>

\* The workers exist and the schedulers do not yet; the factory of the last
\* statement is registered and another one is not.
C17_Witness ==
    /\ AtStmt("InitSchedulers")
    /\ "Migrations" \in factories /\ "LdapSync" \notin factories
    /\ Len(jobs.Workers) = 1 /\ jobs.Schedulers = <<>>
    /\ jobs.Workers[1]["Migrations"] = "Migrations"

============================================================================
